---- MODULE Spec2Model ----
(***************************************************************************)
(* art-for-daggerheart, scripts/init.js: the mapping preloader, the pack   *)
(* support check, the path deriver, the settings registration and the      *)
(* applyCompendiumArt handler, as a state machine.                         *)
(*                                                                         *)
(* JS objects are functions from the names of their present properties to  *)
(* values; an absent (undefined or null) property is not in the DOMAIN.    *)
(* Strings that the code takes apart (image paths) are sequences of        *)
(* symbols; the symbol "/portraits/" stands for that literal substring.    *)
(***************************************************************************)
EXTENDS Integers, Sequences, FiniteSets, TLC

VARIABLES
    pc,                  \* position of the bootstrap hooks (init, ready)
    registry,            \* game.settings registrations of this module
    world,               \* stored world values of the module's settings
    compendiumMappings,  \* module.flags.compendiumArtMappings, in entry order
    idx,                 \* entry of compendiumMappings the preloader is at
    SUPPORTED_PACKS,     \* init.js:18
    MAPPING_DATA_LOADED, \* init.js:19
    fetched,             \* number of fetch() calls started, per entry
    coreAutoRotate,      \* the host's core.tokenAutoRotate setting
    call,                \* the last applyCompendiumArt invocation and its effect
    actorImg,            \* argument of a direct buildPathsFromActorImg call
    built                \* its result

vars == <<pc, registry, world, compendiumMappings, idx, SUPPORTED_PACKS,
          MAPPING_DATA_LOADED, fetched, coreAutoRotate, call, actorImg, built>>

(* ------------------------------ bounds -------------------------------- *)
MaxEntries == 2   \* entries in compendiumArtMappings
MaxLen == 6       \* symbols in a path given to the path deriver

(* ------------------------------ objects ------------------------------- *)
EmptyObj == [k \in {} |-> TRUE]
Has(o, k) == k \in DOMAIN o
Put(o, k, v) == [p \in DOMAIN o \cup {k} |-> IF p = k THEN v ELSE o[p]]
Null == "null"
Undefined == "undefined"

(* ------------------------------ TOKEN_MODE ---------------------------- *)
WILDCARDS == "wildcards"
WILDCARDS_RINGS == "wildcardsRings"
CIRCLE == "circle"
CIRCLE_RINGS == "circleRings"
PORTRAIT_RINGS == "portraitRings"
TOKEN_MODE == {WILDCARDS, WILDCARDS_RINGS, CIRCLE, CIRCLE_RINGS, PORTRAIT_RINGS}

isWildcardMode(m) == m = WILDCARDS \/ m = WILDCARDS_RINGS

hasRings(m) == m = WILDCARDS_RINGS \/ m = CIRCLE_RINGS \/ m = PORTRAIT_RINGS

(* ------------------------------ strings ------------------------------- *)
PORTRAITS == "/portraits/"
Alphabet == {"N", " ", ".", "/", "\n", PORTRAITS}

\* the characters a symbol is made of that are a slash, a dot, a line end
HasSlash(c) == c \in {"/", PORTRAITS}
IsDot(c) == c = "."
IsLineTerminator(c) == c = "\n"

Strings(n) == UNION {[1..k -> Alphabet] : k \in 0..n}

\* encodeURIComponent of one symbol: unreserved characters stay, the rest
\* becomes the %XX escape of its UTF-8 bytes
EncodeChar(c) ==
    CASE c = " " -> <<"%20">>
      [] c = "\n" -> <<"%0A">>
      [] c = "/" -> <<"%2F">>
      [] c = PORTRAITS -> <<"%2F", "portraits", "%2F">>
      [] OTHER -> <<c>>

RECURSIVE encodeURIComponent(_)
encodeURIComponent(s) ==
    IF s = <<>> THEN <<>> ELSE EncodeChar(Head(s)) \o encodeURIComponent(Tail(s))

(* --------------------------- path deriver ----------------------------- *)
\* /^(.*)\/portraits\/([^/]+)(\.[^.\/]+)$/ : the ways s splits into
\* root, "/portraits/", baseName, ext, as <<length of root, length of baseName>>
\* (. matches every character but a line terminator)
RootOk(r) == \A i \in 1..Len(r) : ~IsLineTerminator(r[i])
BaseOk(b) == Len(b) >= 1 /\ \A i \in 1..Len(b) : ~HasSlash(b[i])
ExtOk(e) == /\ Len(e) >= 2
            /\ IsDot(e[1])
            /\ \A i \in 2..Len(e) : ~IsDot(e[i]) /\ ~HasSlash(e[i])

Splits(s) ==
    {rb \in (0..Len(s)) \X (1..Len(s)) :
        /\ rb[1] + 1 + rb[2] < Len(s)
        /\ s[rb[1] + 1] = PORTRAITS
        /\ RootOk(SubSeq(s, 1, rb[1]))
        /\ BaseOk(SubSeq(s, rb[1] + 2, rb[1] + 1 + rb[2]))
        /\ ExtOk(SubSeq(s, rb[1] + 2 + rb[2], Len(s)))}

\* the match the regex engine reports: the longest root, then the longest baseName
Exec(s) ==
    CHOOSE rb \in Splits(s) :
        \A o \in Splits(s) : o[1] < rb[1] \/ (o[1] = rb[1] /\ o[2] <= rb[2])

\* the path deriver with the whole wildcard path left unencoded
buildPathsFromActorImg_Unencoded(s) ==
    IF Splits(s) = {} THEN EmptyObj
    ELSE LET m == Exec(s)
             root == SubSeq(s, 1, m[1])
             baseName == SubSeq(s, m[1] + 2, m[1] + 1 + m[2])
             ext == SubSeq(s, m[1] + 2 + m[2], Len(s))
         IN [wildcardSrc |-> root \o <<"/", "tokens", "/">> \o baseName
                                \o <<"*">> \o ext,
             circleSrc |-> root \o <<"/", "circle", "/">> \o baseName \o ext,
             ext |-> ext]

buildPathsFromActorImg(s) ==
    IF Splits(s) = {} THEN EmptyObj
    ELSE LET m == Exec(s)
             root == SubSeq(s, 1, m[1])
             baseName == SubSeq(s, m[1] + 2, m[1] + 1 + m[2])
             ext == SubSeq(s, m[1] + 2 + m[2], Len(s))
             tokensDir == root \o <<"/", "tokens">>
             circleDir == root \o <<"/", "circle">>
         IN [wildcardSrc |-> tokensDir \o <<"/">> \o encodeURIComponent(baseName)
                                \o <<"*">> \o ext,
             circleSrc |-> circleDir \o <<"/">> \o baseName \o ext,
             ext |-> ext]

(* ------------------------------ settings ------------------------------ *)
MODULE_ID == "art-for-daggerheart"

Registration(default, reload) ==
    LET base == [scope |-> "world", config |-> TRUE, default |-> default]
    IN IF reload THEN Put(base, "requiresReload", TRUE) ELSE base

\* the registrations made by registerSettings, by setting key
registerSettings ==
    [k \in {"tokenAutoRotate", "debugLogging", "ringColor", "tokenMode",
            "tokenWidth", "tokenHeight", "imageFitMode"} |->
        CASE k = "tokenAutoRotate" -> Registration("false", FALSE)
          [] k = "debugLogging" -> Registration("false", FALSE)
          [] k = "ringColor" -> Registration("#8f0000", TRUE)
          [] k = "tokenMode" -> Registration(WILDCARDS_RINGS, TRUE)
          [] k = "tokenWidth" -> Registration("1.0", TRUE)
          [] k = "tokenHeight" -> Registration("1.0", TRUE)
          [] k = "imageFitMode" -> Registration("contain", TRUE)]

\* a registration asks for a reload when its requiresReload option is set
RequiresReload(reg) == Has(reg, "requiresReload") /\ reg.requiresReload

\* stored values of the world: every token mode, and two sets of the others
WorldSettings ==
    {[tokenMode |-> m, tokenWidth |-> p[1], tokenHeight |-> p[2],
      imageFitMode |-> p[3], ringColor |-> p[4], tokenAutoRotate |-> p[5]] :
        m \in TOKEN_MODE,
        p \in {<<1, 1, "contain", "#8f0000", FALSE>>,
               <<2, 3, "cover", "#00FF7F", TRUE>>}}

\* Color.from(raw).css, else String(raw): the lower-case hex form
Css(raw) ==
    CASE raw = "#00FF7F" -> "#00ff7f"
      [] OTHER -> raw

(* ------------------------------ network ------------------------------- *)
\* what each mapping URL of the manifest does when fetched
PackIds == {"packA", "packB", "packC", "packD"}
Urls == {"a.json", "b.json", "missing.json", "down.json", "bad.json",
         "null.json", "slow.json"}

\* fetch(url): resolves with response.ok, resolves with a non-OK status,
\* rejects, or stays pending
Fetch(url) ==
    CASE url = "missing.json" -> "status404"
      [] url = "down.json" -> "reject"
      [] url = "slow.json" -> "pending"
      [] OTHER -> "ok"

\* response.json(): an object, null, or a rejection with a SyntaxError
Body(url) ==
    CASE url = "bad.json" -> "syntaxError"
      [] url = "null.json" -> "null"
      [] OTHER -> "object"

\* Object.keys of the parsed mapping file
Keys(url) ==
    CASE url = "a.json" -> {"packA", "packB"}
      [] url = "b.json" -> {"packB", "packC"}
      [] OTHER -> {}

\* an entry of compendiumArtMappings: with a string mapping, or without one
Entries == {EmptyObj} \cup {[mapping |-> u] : u \in Urls}
Manifests == UNION {[1..n -> Entries] : n \in 0..MaxEntries}

HasMapping(config) == Has(config, "mapping")

(* ------------------------------ preloader ----------------------------- *)
\* the entries from i on that the loop does not skip
Mapped(i) == {j \in i..Len(compendiumMappings) : HasMapping(compendiumMappings[j])}

\* the for loop of preloadMappingData from entry i on, up to its next await
\* or to its end, with packs the supported set so far
Advance(i, packs) ==
    /\ SUPPORTED_PACKS' = packs
    /\ IF Mapped(i) # {}
       THEN LET j == CHOOSE j \in Mapped(i) : \A k \in Mapped(i) : j <= k
            IN /\ pc' = "fetch"
               /\ idx' = j
               /\ fetched' = [fetched EXCEPT ![j] = @ + 1]
               /\ UNCHANGED MAPPING_DATA_LOADED
       ELSE /\ MAPPING_DATA_LOADED' = TRUE
            /\ pc' = "setCore"
            /\ idx' = Len(compendiumMappings) + 1
            /\ UNCHANGED fetched

\* Hooks.once("init")
InitHook ==
    /\ pc = "start"
    /\ pc' = "initialized"
    /\ registry' = registerSettings
    /\ UNCHANGED <<world, compendiumMappings, idx, SUPPORTED_PACKS,
                   MAPPING_DATA_LOADED, fetched, coreAutoRotate, call,
                   actorImg, built>>

\* Hooks.once("ready"), up to the first await inside preloadMappingData
ReadyHook ==
    /\ pc = "initialized"
    /\ Advance(1, {})
    /\ UNCHANGED <<registry, world, compendiumMappings, coreAutoRotate, call,
                   actorImg, built>>

\* fetch settling with the catch around the loop: a failure ends the loop
FetchSettle_Abort ==
    /\ pc = "fetch"
    /\ LET url == compendiumMappings[idx].mapping
       IN /\ Fetch(url) # "pending"
          /\ IF Fetch(url) = "ok"
             THEN /\ pc' = "json"
                  /\ UNCHANGED <<idx, SUPPORTED_PACKS, MAPPING_DATA_LOADED, fetched>>
             ELSE Advance(Len(compendiumMappings) + 1, SUPPORTED_PACKS)
    /\ UNCHANGED <<registry, world, compendiumMappings, coreAutoRotate, call,
                   actorImg, built>>

\* fetch settling with one retry of an entry that failed
FetchSettle_Retry ==
    /\ pc = "fetch"
    /\ LET url == compendiumMappings[idx].mapping
       IN /\ Fetch(url) # "pending"
          /\ IF Fetch(url) = "ok"
             THEN /\ pc' = "json"
                  /\ UNCHANGED <<idx, SUPPORTED_PACKS, MAPPING_DATA_LOADED, fetched>>
             ELSE IF fetched[idx] < 2 THEN Advance(idx, SUPPORTED_PACKS)
             ELSE Advance(idx + 1, SUPPORTED_PACKS)
    /\ UNCHANGED <<registry, world, compendiumMappings, coreAutoRotate, call,
                   actorImg, built>>

\* await fetch(config.mapping) settles
FetchSettle ==
    /\ pc = "fetch"
    /\ LET url == compendiumMappings[idx].mapping
       IN /\ Fetch(url) # "pending"
          /\ IF Fetch(url) = "ok"
             THEN /\ pc' = "json"
                  /\ UNCHANGED <<idx, SUPPORTED_PACKS, MAPPING_DATA_LOADED, fetched>>
             ELSE Advance(idx + 1, SUPPORTED_PACKS)
    /\ UNCHANGED <<registry, world, compendiumMappings, coreAutoRotate, call,
                   actorImg, built>>

\* await response.json() settles
JsonSettle ==
    /\ pc = "json"
    /\ LET url == compendiumMappings[idx].mapping
       IN IF Body(url) = "object"
          THEN Advance(idx + 1, SUPPORTED_PACKS \cup Keys(url))
          ELSE Advance(idx + 1, SUPPORTED_PACKS)
    /\ UNCHANGED <<registry, world, compendiumMappings, coreAutoRotate, call,
                   actorImg, built>>

\* await game.settings.set("core", "tokenAutoRotate", ...) settles or throws
CoreSetSettle ==
    /\ pc = "setCore"
    /\ pc' = "ready"
    /\ \/ coreAutoRotate' = world.tokenAutoRotate
       \/ UNCHANGED coreAutoRotate
    /\ UNCHANGED <<registry, world, compendiumMappings, idx, SUPPORTED_PACKS,
                   MAPPING_DATA_LOADED, fetched, call, actorImg, built>>

\* isPackSupported without its check of the loaded flag
isPackSupported_Unguarded(packId) == packId \in SUPPORTED_PACKS

isPackSupported(packId) ==
    IF ~MAPPING_DATA_LOADED THEN FALSE ELSE packId \in SUPPORTED_PACKS

(* ----------------------- applyCompendiumArt --------------------------- *)
\* pack?.metadata?.id ?? pack?.collection
PackIdOf(pack) ==
    IF Has(pack, "metadata") /\ Has(pack.metadata, "id") THEN pack.metadata.id
    ELSE IF Has(pack, "collection") THEN pack.collection
    ELSE Undefined

\* typeof art?.actor === "string" && art.actor
HasPortrait(art) == Has(art, "actor") /\ art.actor # <<>>

\* source.prototypeToken ??= {}; .texture ??= {}; .ring ??= {colors: {}, subject: {}}
EnsureStructure(source) ==
    LET pt0 == IF Has(source, "prototypeToken") THEN source.prototypeToken ELSE EmptyObj
        pt1 == IF Has(pt0, "texture") THEN pt0 ELSE Put(pt0, "texture", EmptyObj)
        pt2 == IF Has(pt1, "ring") THEN pt1
               ELSE Put(pt1, "ring", [colors |-> EmptyObj, subject |-> EmptyObj])
    IN Put(source, "prototypeToken", pt2)

\* the token image with the circle branch ahead of the wildcard branch
TokenImage_CircleFirst(mode, actor) ==
    LET paths == buildPathsFromActorImg(actor)
    IN IF mode = PORTRAIT_RINGS THEN [src |-> actor, randomImg |-> FALSE]
       ELSE IF Has(paths, "circleSrc")
            THEN [src |-> paths.circleSrc, randomImg |-> FALSE]
       ELSE IF isWildcardMode(mode) /\ Has(paths, "wildcardSrc")
            THEN [src |-> paths.wildcardSrc, randomImg |-> TRUE]
       ELSE [src |-> actor, randomImg |-> FALSE]

\* the token image with randomImg following the mode, not the derived path
TokenImage_RandomByMode(mode, actor) ==
    LET paths == buildPathsFromActorImg(actor)
    IN IF mode = PORTRAIT_RINGS THEN [src |-> actor, randomImg |-> FALSE]
       ELSE IF isWildcardMode(mode) /\ Has(paths, "wildcardSrc")
            THEN [src |-> paths.wildcardSrc, randomImg |-> TRUE]
       ELSE IF Has(paths, "circleSrc")
            THEN [src |-> paths.circleSrc, randomImg |-> FALSE]
       ELSE [src |-> actor, randomImg |-> isWildcardMode(mode)]

\* the token image the mode selects and whether it is a wildcard
TokenImage(mode, actor) ==
    LET paths == buildPathsFromActorImg(actor)
    IN IF mode = PORTRAIT_RINGS THEN [src |-> actor, randomImg |-> FALSE]
       ELSE IF isWildcardMode(mode) /\ Has(paths, "wildcardSrc")
            THEN [src |-> paths.wildcardSrc, randomImg |-> TRUE]
       ELSE IF Has(paths, "circleSrc")
            THEN [src |-> paths.circleSrc, randomImg |-> FALSE]
       ELSE [src |-> actor, randomImg |-> FALSE]

\* 1) Portrait -> token image, and the texture settings
ApplyPortrait(doc, art, mode, tokenWidth, tokenHeight, imageFitMode) ==
    IF ~HasPortrait(art) THEN doc
    ELSE LET image == TokenImage(mode, art.actor)
             pt == doc.prototypeToken
             texture == Put(Put(pt.texture, "src", image.src), "fit", imageFitMode)
             pt1 == Put(Put(Put(Put(pt, "texture", texture),
                                "randomImg", image.randomImg),
                            "width", tokenWidth),
                        "height", tokenHeight)
         IN Put(Put(doc, "img", art.actor), "prototypeToken", pt1)

\* 2) Dynamic Token Ring: the six assignments in order; writing a property of
\* an absent ring.colors or ring.subject throws a TypeError and ends the handler
WithRing(doc, ring) == Put(doc, "prototypeToken", Put(doc.prototypeToken, "ring", ring))

ApplyRing(doc, mode, ringColor) ==
    LET ringEnabled == hasRings(mode)
        ring1 == Put(Put(doc.prototypeToken.ring, "enabled", ringEnabled), "effects", 1)
    IN IF ~Has(ring1, "colors") THEN [doc |-> WithRing(doc, ring1), threw |-> TRUE]
       ELSE LET colors == Put(Put(ring1.colors, "ring",
                                  IF ringEnabled THEN ringColor ELSE Null),
                              "background", Null)
                ring2 == Put(ring1, "colors", colors)
            IN IF ~Has(ring2, "subject")
               THEN [doc |-> WithRing(doc, ring2), threw |-> TRUE]
               ELSE LET subject == Put(Put(ring2.subject, "scale",
                                           IF ringEnabled THEN 8 ELSE 10),
                                       "texture", Null)
                    IN [doc |-> WithRing(doc, Put(ring2, "subject", subject)),
                        threw |-> FALSE]

\* the handler with the token structure ensured ahead of the gate
Handler_EnsureFirst(source, pack, art) ==
    LET packId == PackIdOf(pack)
    IN IF ~MAPPING_DATA_LOADED THEN [doc |-> source, threw |-> FALSE]
       ELSE IF ~isPackSupported(packId)
            THEN [doc |-> EnsureStructure(source), threw |-> FALSE]
       ELSE ApplyRing(ApplyPortrait(EnsureStructure(source), art, world.tokenMode,
                                    world.tokenWidth, world.tokenHeight,
                                    world.imageFitMode),
                      world.tokenMode, Css(world.ringColor))

\* the handler: the document it leaves and whether it threw
Handler(source, pack, art) ==
    LET packId == PackIdOf(pack)
    IN IF ~MAPPING_DATA_LOADED THEN [doc |-> source, threw |-> FALSE]
       ELSE IF ~isPackSupported(packId) THEN [doc |-> source, threw |-> FALSE]
       ELSE ApplyRing(ApplyPortrait(EnsureStructure(source), art, world.tokenMode,
                                    world.tokenWidth, world.tokenHeight,
                                    world.imageFitMode),
                      world.tokenMode, Css(world.ringColor))

\* Hooks.on("applyCompendiumArt", (documentClass, source, pack, art) => ...)
ApplyCompendiumArt(source, pack, art) ==
    /\ pc \in {"initialized", "fetch", "json", "setCore", "ready"}
    /\ call = EmptyObj
    /\ call' = [source |-> source, pack |-> pack, art |-> art,
                loaded |-> MAPPING_DATA_LOADED,
                packs |-> SUPPORTED_PACKS,
                supported |-> isPackSupported(PackIdOf(pack)),
                doc |-> Handler(source, pack, art).doc,
                threw |-> Handler(source, pack, art).threw]
    /\ UNCHANGED <<pc, registry, world, compendiumMappings, idx, SUPPORTED_PACKS,
                   MAPPING_DATA_LOADED, fetched, coreAutoRotate, actorImg, built>>

\* the host takes the document back and goes on to the next one
HostTakesDocument ==
    /\ call # EmptyObj
    /\ call' = EmptyObj
    /\ UNCHANGED <<pc, registry, world, compendiumMappings, idx, SUPPORTED_PACKS,
                   MAPPING_DATA_LOADED, fetched, coreAutoRotate, actorImg, built>>

\* buildPathsFromActorImg called on its own
BuildPaths ==
    /\ pc = "path"
    /\ pc' = "built"
    /\ built' = buildPathsFromActorImg(actorImg)
    /\ UNCHANGED <<registry, world, compendiumMappings, idx, SUPPORTED_PACKS,
                   MAPPING_DATA_LOADED, fetched, coreAutoRotate, call, actorImg>>

(* ------------------------------ inputs -------------------------------- *)
\* source documents: every combination of prototypeToken, its texture, its
\* ring, ring.colors and ring.subject being there or not, with earlier values
OldImg == <<"N", ".", "N">>
OldTexture == [src |-> <<"N", "/", "N", ".", "N">>, fit |-> "fill"]
OldColors == [ring |-> "#123456", background |-> "#654321"]
OldSubject == [scale |-> 5, texture |-> "old-subject.webp"]
OldRings ==
    {LET r0 == [enabled |-> TRUE, effects |-> 0]
         r1 == IF "colors" \in parts THEN Put(r0, "colors", OldColors) ELSE r0
     IN IF "subject" \in parts THEN Put(r1, "subject", OldSubject) ELSE r1 :
        parts \in SUBSET {"colors", "subject"}}
OldTokens ==
    {LET t0 == [width |-> 5, height |-> 5, randomImg |-> TRUE]
         t1 == IF tex THEN Put(t0, "texture", OldTexture) ELSE t0
     IN IF rg = {} THEN t1 ELSE Put(t1, "ring", CHOOSE r \in rg : TRUE) :
        tex \in BOOLEAN, rg \in {{}} \cup {{r} : r \in OldRings}}
Sources ==
    {[name |-> "Cult Adept", img |-> OldImg]}
    \cup {[name |-> "Cult Adept", img |-> OldImg, prototypeToken |-> t] : t \in OldTokens}

\* packs: identified by metadata.id, by collection, by both, or by neither
Packs ==
    {EmptyObj,
     [metadata |-> [id |-> "packA"]],
     [metadata |-> [id |-> "packD"]],
     [collection |-> "packB"],
     [metadata |-> [id |-> "packD"], collection |-> "packA"],
     [metadata |-> EmptyObj, collection |-> "packC"]}

\* art descriptors: no string actor, the empty string, and portrait paths
\* that follow the portraits convention or do not
Portrait == <<"N", PORTRAITS, "N", " ", "N", ".", "N">>
Loose == <<"N", "/", "N", " ", "N", ".", "N">>
Nested == <<"N", PORTRAITS, "N", "/", "N", ".", "N">>
LineBreak == <<"N", "\n", PORTRAITS, "N", ".", "N">>
Arts == {EmptyObj, [actor |-> <<>>], [actor |-> Portrait], [actor |-> Loose],
         [actor |-> Nested], [actor |-> LineBreak]}

\* the inputs of the runs that look at the preloader: few documents
FewSources == {s \in Sources : ~Has(s, "prototypeToken")}
                 \cup {s \in Sources : /\ Has(s, "prototypeToken")
                                       /\ Has(s.prototypeToken, "texture")
                                       /\ Has(s.prototypeToken, "ring")
                                       /\ Has(s.prototypeToken.ring, "colors")
                                       /\ Has(s.prototypeToken.ring, "subject")}
FewPacks == {[metadata |-> [id |-> "packA"]], [metadata |-> [id |-> "packD"]],
             [collection |-> "packB"]}
FewArts == {EmptyObj, [actor |-> Portrait]}

\* the manifests of the runs that look at the handler
ArtManifests ==
    {<<[mapping |-> "a.json"]>>,
     <<[mapping |-> "missing.json"], EmptyObj, [mapping |-> "b.json"]>>}

(* --------------------------- specifications --------------------------- *)
InitWith(manifests, worlds) ==
    /\ pc = "start"
    /\ registry = EmptyObj
    /\ world \in worlds
    /\ compendiumMappings \in manifests
    /\ idx = 0
    /\ SUPPORTED_PACKS = {}
    /\ MAPPING_DATA_LOADED = FALSE
    /\ fetched = [i \in 1..Len(compendiumMappings) |-> 0]
    /\ coreAutoRotate = FALSE
    /\ call = EmptyObj
    /\ actorImg = <<>>
    /\ built = EmptyObj

Bootstrap == InitHook \/ ReadyHook \/ FetchSettle \/ JsonSettle \/ CoreSetSettle

\* every manifest of at most MaxEntries entries, a few documents
Init == InitWith(Manifests, WorldSettings)

Next ==
    \/ InitHook
    \/ ReadyHook
    \/ FetchSettle
    \/ JsonSettle
    \/ CoreSetSettle
    \/ \E source \in FewSources, pack \in FewPacks, art \in FewArts :
          ApplyCompendiumArt(source, pack, art)
    \/ HostTakesDocument

Spec == Init /\ [][Next]_vars

\* the same, with every pending promise that can settle settling
InitLive == InitWith(Manifests, {w \in WorldSettings : w.tokenWidth = 1})

SpecLive == InitLive /\ [][Next]_vars /\ WF_vars(Bootstrap)

\* two manifests, every document, pack and art descriptor
InitArt == InitWith(ArtManifests, WorldSettings)

NextArt ==
    \/ InitHook
    \/ ReadyHook
    \/ FetchSettle
    \/ JsonSettle
    \/ CoreSetSettle
    \/ \E source \in Sources, pack \in Packs, art \in Arts :
          ApplyCompendiumArt(source, pack, art)
    \/ HostTakesDocument

SpecArt == InitArt /\ [][NextArt]_vars

\* the path deriver alone, on every string of at most MaxLen symbols
InitPaths ==
    /\ pc = "path"
    /\ registry = EmptyObj
    /\ world \in {w \in WorldSettings : w.tokenMode = WILDCARDS /\ w.tokenWidth = 1}
    /\ compendiumMappings = <<>>
    /\ idx = 0
    /\ SUPPORTED_PACKS = {}
    /\ MAPPING_DATA_LOADED = FALSE
    /\ fetched = <<>>
    /\ coreAutoRotate = FALSE
    /\ call = EmptyObj
    /\ actorImg \in Strings(MaxLen)
    /\ built = EmptyObj

NextPaths == BuildPaths

SpecPaths == InitPaths /\ [][NextPaths]_vars

(* ------------------------------ claims -------------------------------- *)
Called == call # EmptyObj

\* the property k of object o, as a set: empty when the property is absent
Prop(o, k) == IF Has(o, k) THEN {o[k]} ELSE {}
Token(doc) == IF Has(doc, "prototypeToken") THEN doc.prototypeToken ELSE EmptyObj
Texture(doc) == IF Has(Token(doc), "texture") THEN Token(doc).texture ELSE EmptyObj
Ring(doc) == IF Has(Token(doc), "ring") THEN Token(doc).ring ELSE EmptyObj
Colors(doc) == IF Has(Ring(doc), "colors") THEN Ring(doc).colors ELSE EmptyObj
Subject(doc) == IF Has(Ring(doc), "subject") THEN Ring(doc).subject ELSE EmptyObj

\* the keys of the mapping files that were fetched with an OK status and parsed
ExpectedPacks ==
    UNION {Keys(compendiumMappings[j].mapping) :
             j \in {k \in 1..Len(compendiumMappings) :
                      /\ HasMapping(compendiumMappings[k])
                      /\ Fetch(compendiumMappings[k].mapping) = "ok"
                      /\ Body(compendiumMappings[k].mapping) \in {"object", "null"}}}

\* C1: after preload has completed, an invocation whose pack identifier is not
\* in the supported-pack set leaves the source document as it was: no field
\* written, no nested structure created, in every mode and for every art.
C1_UnsupportedPackNoMutation ==
    (Called /\ call.loaded /\ PackIdOf(call.pack) \notin call.packs)
        => (call.doc = call.source /\ ~call.threw)

C1_Witness ==
    /\ Called
    /\ call.loaded
    /\ PackIdOf(call.pack) = "packD"
    /\ call.packs # {}
    /\ HasPortrait(call.art)
    /\ ~Has(call.source, "prototypeToken")
    /\ call.doc = call.source

\* C2: a document is mutated only by an invocation made when the loaded flag
\* is set and the supported-pack set is complete; an invocation made before
\* that leaves the document unchanged and has isPackSupported false, also when
\* its pack is already in the partly built set; once set, the flag stays set
\* and the set stays as it is.
C2_MutationOnlyAfterPreload ==
    /\ [](Called =>
            /\ (call.doc # call.source =>
                    call.loaded /\ call.packs = ExpectedPacks)
            /\ (~call.loaded => call.doc = call.source /\ ~call.supported))
    /\ [][MAPPING_DATA_LOADED =>
            MAPPING_DATA_LOADED' /\ SUPPORTED_PACKS' = SUPPORTED_PACKS]_vars

C2_Witness ==
    /\ Called
    /\ ~call.loaded
    /\ pc = "fetch"
    /\ idx = 2
    /\ PackIdOf(call.pack) \in call.packs
    /\ call.doc = call.source
    /\ ~call.supported

\* C3: for a supported pack and a portrait path that matches the portraits
\* convention the result follows the mode table: wildcard modes take the
\* derived tokens path with randomImg, circle modes the derived circle path
\* without, portraitRings the portrait without; the ring is enabled exactly
\* in the three ring modes; img is the portrait and width, height and fit are
\* the configured values.
C3_ModeTable ==
    (Called /\ call.supported /\ HasPortrait(call.art)
            /\ buildPathsFromActorImg(call.art.actor) # EmptyObj)
        => LET mode == world.tokenMode
               actor == call.art.actor
               paths == buildPathsFromActorImg(actor)
               doc == call.doc
           IN /\ mode \in {WILDCARDS, WILDCARDS_RINGS} =>
                    /\ Prop(Texture(doc), "src") = {paths.wildcardSrc}
                    /\ Prop(Token(doc), "randomImg") = {TRUE}
              /\ mode \in {CIRCLE, CIRCLE_RINGS} =>
                    /\ Prop(Texture(doc), "src") = {paths.circleSrc}
                    /\ Prop(Token(doc), "randomImg") = {FALSE}
              /\ mode = PORTRAIT_RINGS =>
                    /\ Prop(Texture(doc), "src") = {actor}
                    /\ Prop(Token(doc), "randomImg") = {FALSE}
              /\ Prop(Ring(doc), "enabled") =
                    {mode \in {WILDCARDS_RINGS, CIRCLE_RINGS, PORTRAIT_RINGS}}
              /\ Prop(doc, "img") = {actor}
              /\ Prop(Token(doc), "width") = {world.tokenWidth}
              /\ Prop(Token(doc), "height") = {world.tokenHeight}
              /\ Prop(Texture(doc), "fit") = {world.imageFitMode}

C3_Witness ==
    /\ Called
    /\ call.supported
    /\ call.art = [actor |-> Portrait]
    /\ world.tokenMode = WILDCARDS_RINGS
    /\ world.tokenWidth = 2
    /\ Texture(call.doc).src =
          <<"N", "/", "tokens", "/", "N", "%20", "N", "*", ".", "N">>
    /\ Token(call.doc).randomImg
    /\ Ring(call.doc).enabled

\* the token ring modes, as the mode table lists them
RingMode == world.tokenMode \in {WILDCARDS_RINGS, CIRCLE_RINGS, PORTRAIT_RINGS}

\* C4: every supported-pack invocation that passes the gate, with or without
\* a portrait, returns with ring.enabled as the mode says, ring.effects 1,
\* ring.colors.ring the configured color with rings and null without,
\* ring.colors.background null, ring.subject.scale 0.8 with rings and 1.0
\* without, ring.subject.texture null; without a portrait img, texture.src,
\* texture.fit, width, height and randomImg stay as they were.
C4_RingAlwaysWritten ==
    (Called /\ call.supported)
        => LET doc == call.doc
               src == call.source
           IN /\ Prop(Ring(doc), "enabled") = {RingMode}
              /\ Prop(Ring(doc), "effects") = {1}
              /\ Prop(Colors(doc), "ring") =
                    {IF RingMode THEN Css(world.ringColor) ELSE Null}
              /\ Prop(Colors(doc), "background") = {Null}
              /\ Prop(Subject(doc), "scale") = {IF RingMode THEN 8 ELSE 10}
              /\ Prop(Subject(doc), "texture") = {Null}
              /\ ~HasPortrait(call.art) =>
                    /\ Prop(doc, "img") = Prop(src, "img")
                    /\ Prop(Texture(doc), "src") = Prop(Texture(src), "src")
                    /\ Prop(Texture(doc), "fit") = Prop(Texture(src), "fit")
                    /\ Prop(Token(doc), "width") = Prop(Token(src), "width")
                    /\ Prop(Token(doc), "height") = Prop(Token(src), "height")
                    /\ Prop(Token(doc), "randomImg") = Prop(Token(src), "randomImg")

\* C5: for a supported pack and a non-empty portrait path for which the
\* deriver returns no paths, every mode, portraitRings included, sets
\* texture.src to the portrait path and randomImg to false; randomImg is true
\* only with texture.src a derived wildcard path.
C5_FallbackToPortrait ==
    (Called /\ call.supported /\ HasPortrait(call.art))
        => LET actor == call.art.actor
               paths == buildPathsFromActorImg(actor)
               doc == call.doc
           IN /\ paths = EmptyObj =>
                    /\ Prop(Texture(doc), "src") = {actor}
                    /\ Prop(Token(doc), "randomImg") = {FALSE}
              /\ Prop(Token(doc), "randomImg") = {TRUE} =>
                    /\ paths # EmptyObj
                    /\ Prop(Texture(doc), "src") = {paths.wildcardSrc}

C5_Witness ==
    /\ Called
    /\ call.supported
    /\ call.art = [actor |-> Loose]
    /\ world.tokenMode = WILDCARDS
    /\ Texture(call.doc).src = Loose
    /\ ~Token(call.doc).randomImg

\* C6: when the preloader has finished, the supported-pack set is the union
\* of the keys of the mapping files whose fetch returned OK and parsed,
\* whatever the other entries did; a failing entry adds no key and every
\* entry after it is still fetched.
C6_SupportedIsUnionOfOk ==
    MAPPING_DATA_LOADED =>
        /\ SUPPORTED_PACKS = ExpectedPacks
        /\ \A j \in 1..Len(compendiumMappings) :
              fetched[j] = IF HasMapping(compendiumMappings[j]) THEN 1 ELSE 0
        /\ pc \in {"setCore", "ready"}

C6_Witness ==
    /\ MAPPING_DATA_LOADED
    /\ compendiumMappings = <<[mapping |-> "missing.json"], [mapping |-> "a.json"]>>
    /\ SUPPORTED_PACKS = {"packA", "packB"}

\* C8: for a supported pack after preload the handler never throws, whichever
\* of prototypeToken, texture, ring, ring.colors and ring.subject the source
\* has, and returns with all of them present and the ring fields written.
C8_NeverThrows ==
    (Called /\ call.supported)
        => /\ ~call.threw
           /\ Has(call.doc, "prototypeToken")
           /\ Has(Token(call.doc), "texture")
           /\ Has(Token(call.doc), "ring")
           /\ Has(Ring(call.doc), "colors")
           /\ Has(Ring(call.doc), "subject")
           /\ {"enabled", "effects"} \subseteq DOMAIN Ring(call.doc)
           /\ {"ring", "background"} \subseteq DOMAIN Colors(call.doc)
           /\ {"scale", "texture"} \subseteq DOMAIN Subject(call.doc)

\* C9: every setting registered by registerSettings is world-scoped, and
\* every one of them except debug logging is registered with requiresReload.
C9_WorldScopedAndReload ==
    pc # "start" =>
        /\ DOMAIN registry = {"tokenAutoRotate", "debugLogging", "ringColor",
                              "tokenMode", "tokenWidth", "tokenHeight",
                              "imageFitMode"}
        /\ \A k \in DOMAIN registry :
              /\ registry[k].scope = "world"
              /\ k # "debugLogging" => RequiresReload(registry[k])

\* the entries whose fetch or body read is still awaited, and whether some
\* configured fetch stays pending for ever
InFlight ==
    {j \in 1..Len(compendiumMappings) :
        fetched[j] > 0 /\ (j > idx \/ (j = idx /\ pc \in {"fetch", "json"}))}
NeverSettles ==
    \E j \in 1..Len(compendiumMappings) :
        /\ HasMapping(compendiumMappings[j])
        /\ Fetch(compendiumMappings[j].mapping) = "pending"

\* C10: when every fetch the preloader starts settles, the loaded flag is
\* eventually set whatever the outcomes are; each entry is fetched at most
\* once and at most one fetch is in flight at a time; when some fetch never
\* settles the flag is never set and every handler invocation is a no-op.
C10_PreloadTerminates ==
    /\ [](/\ \A j \in 1..Len(compendiumMappings) : fetched[j] <= 1
          /\ Cardinality(InFlight) <= 1
          /\ NeverSettles =>
                /\ ~MAPPING_DATA_LOADED
                /\ Called => call.doc = call.source)
    /\ [](~NeverSettles => <>MAPPING_DATA_LOADED)

C10_Witness ==
    /\ MAPPING_DATA_LOADED
    /\ compendiumMappings = <<[mapping |-> "down.json"], [mapping |-> "bad.json"]>>
    /\ fetched = <<1, 1>>
    /\ pc = "ready"

\* a path read as A/portraits/Name.ext: Name runs from the last slash to the
\* last dot, ext from the last dot on
LastWhere(s, Test(_)) ==
    LET at == {i \in 1..Len(s) : Test(s[i])}
    IN IF at = {} THEN 0 ELSE CHOOSE i \in at : \A k \in at : k <= i
SlashAt(s) == LastWhere(s, HasSlash)
DotAt(s) == LastWhere(s, IsDot)
PortraitForm(s) ==
    /\ SlashAt(s) > 0
    /\ s[SlashAt(s)] = PORTRAITS
    /\ DotAt(s) > SlashAt(s) + 1
    /\ DotAt(s) < Len(s)
RootOf(s) == SubSeq(s, 1, SlashAt(s) - 1)
NameOf(s) == SubSeq(s, SlashAt(s) + 1, DotAt(s) - 1)
ExtOf(s) == SubSeq(s, DotAt(s), Len(s))
DerivedAsClaimed(s, paths) ==
    /\ Prop(paths, "wildcardSrc") =
          {RootOf(s) \o <<"/", "tokens", "/">> \o encodeURIComponent(NameOf(s))
             \o <<"*">> \o ExtOf(s)}
    /\ Prop(paths, "circleSrc") =
          {RootOf(s) \o <<"/", "circle", "/">> \o NameOf(s) \o ExtOf(s)}
NoPaths(paths) == ~Has(paths, "wildcardSrc") /\ ~Has(paths, "circleSrc")

\* C7 as stated: every path A/portraits/Name.ext, Name without a slash and
\* ext a final dot-suffix without dot or slash, gives wildcardSrc
\* A/tokens/<percent-encoded Name>*.ext and circleSrc A/circle/Name.ext; every
\* other path gives no paths.
C7_DerivedPaths ==
    pc = "built" =>
        IF PortraitForm(actorImg) THEN DerivedAsClaimed(actorImg, built)
        ELSE NoPaths(built)

\* C7, amended: the same for the paths whose A holds no line terminator; a
\* path of that form with a line terminator in A gives no paths, like every
\* path that is not of the form.
C7_DerivedPathsOneLineRoot ==
    pc = "built" =>
        IF PortraitForm(actorImg)
              /\ \A i \in 1..Len(RootOf(actorImg)) :
                    ~IsLineTerminator(RootOf(actorImg)[i])
        THEN DerivedAsClaimed(actorImg, built)
        ELSE NoPaths(built)

C7_Witness ==
    /\ pc = "built"
    /\ actorImg = <<"N", PORTRAITS, "N", " ", ".", "N">>
    /\ built.wildcardSrc = <<"N", "/", "tokens", "/", "N", "%20", "*", ".", "N">>
    /\ built.circleSrc = <<"N", "/", "circle", "/", "N", " ", ".", "N">>

====
